---- MODULE Spec2Model ----
(***************************************************************************)
(* A model of docparse's extraction core (src/app/extraction.py):          *)
(*   - parse_page_range        page-range expression -> page indices       *)
(*   - _table_to_markdown      cell grid -> markdown text                  *)
(*   - _extract_page_tables    per-page table discovery with its guard     *)
(*   - extract_full / extract_text_only / extract_tables_only              *)
(*                                                                         *)
(* Python strings are modelled as sequences of one-character strings, so   *)
(* that split/strip/int/join are computed character by character.          *)
(***************************************************************************)
EXTENDS Integers, Sequences, FiniteSets, TLC

VARIABLES
    scenario,       \* which function the caller invokes in this behaviour
    clauses,        \* the clause descriptors the range expression was written from
    page_range,     \* the caller's range expression: None or a string
    via_endpoint,   \* TRUE: it arrives as a form field of an endpoint of main.py
    total_pages,    \* argument of parse_page_range
    rp_called,      \* whether parse_page_range has been called
    rp_arg,         \* the page_range argument parse_page_range was called with
    rp_result,      \* what the call produced: a returned list or a raised exception
    tm_data0,       \* the grid handed to _table_to_markdown, as it was before the call
    tm_data,        \* the same list object, as it is now
    tm_called,      \* whether _table_to_markdown has been called
    tm_md,          \* the string it returned
    pg_page,        \* the engine page handed to _extract_page_tables
    pg_called,      \* whether _extract_page_tables has been called
    pg_result,      \* the lists it returned and the warnings it logged
    ex_call,        \* the entry point called and its arguments
    ex_clauses,     \* the clause descriptors ex_call.page_range was written from
    ex_doc,         \* the engine's side: whether the bytes open, and the pages
    ex_pc,          \* where the call is: start, opened, loop, returned, raised
    ex_handle,      \* the document handle: open or not, close() calls, reads after close
    ex_page_indices,\* the list parse_page_range returned
    ex_pos,         \* how many iterations of the page loop are done
    ex_acc,         \* the lists and counters the page loop builds
    ex_log,         \* per iteration: the page and what its table discovery gave
    ex_warnings,    \* warnings logged so far
    ex_response,    \* the response returned, NoResponse until then
    ex_exc,         \* the exception raised to the caller, None until then
    sc_parts,       \* how the text of the page was written: blanks, body length, blanks
    sc_page,        \* the engine page handed to _detect_scanned_page
    sc_text,        \* the text handed to _detect_scanned_page
    sc_called,      \* whether _detect_scanned_page has been called
    sc_result       \* what it returned

rangeVars == <<clauses, page_range, via_endpoint, total_pages, rp_called, rp_arg, rp_result>>

tableVars == <<tm_data0, tm_data, tm_called, tm_md, pg_page, pg_called, pg_result>>

extractVars ==
    <<ex_call, ex_clauses, ex_doc, ex_pc, ex_handle, ex_page_indices, ex_pos, ex_acc,
      ex_log, ex_warnings, ex_response, ex_exc>>

scanVars == <<sc_parts, sc_page, sc_text, sc_called, sc_result>>

vars == <<scenario, rangeVars, tableVars, extractVars, scanVars>>

(***************************************************************************)
(* Bounds of the model.                                                    *)
(***************************************************************************)
MaxPages == 3
MaxClauses == 2
MaxRows == 3
MaxTables == 2
MaxDocPages == 2
MaxImages == 2
MaxExtraText == 2

(***************************************************************************)
(* Python values.                                                          *)
(***************************************************************************)
\* Python's None, kept apart from every string (a string holds only one-character items).
None == <<"None">>

Digits == <<"0", "1", "2", "3", "4", "5", "6", "7", "8", "9">>

\* The decimal digits of other scripts that int() reads and a string of this module
\* can hold, ten per script, zero first:
\*   U+06F0.. Extended Arabic-Indic
\*   U+07C0.. Nko
\*   U+09E6.. Bengali
\*   U+0AE6.. Gujarati
\*   U+0BE6.. Tamil
\*   U+0CE6.. Kannada
\*   U+0DE6.. Sinhala Lith
\*   U+0ED0.. Lao
\*   U+1090.. Myanmar Shan
\*   U+17E0.. Khmer
\*   U+19D0.. New Tai Lue
\*   U+1A80.. Tai Tham Hora
\*   U+1A90.. Tai Tham Tham
\*   U+1BB0.. Sundanese
\*   U+A8D0.. Saurashtra
\*   U+A9D0.. Javanese
\*   U+A9F0.. Myanmar Tai Laing
\*   U+ABF0.. Meetei Mayek
UnicodeDigits ==
    { <<"۰", "۱", "۲", "۳", "۴", "۵", "۶", "۷", "۸", "۹">>,
       <<"߀", "߁", "߂", "߃", "߄", "߅", "߆", "߇", "߈", "߉">>,
       <<"০", "১", "২", "৩", "৪", "৫", "৬", "৭", "৮", "৯">>,
       <<"૦", "૧", "૨", "૩", "૪", "૫", "૬", "૭", "૮", "૯">>,
       <<"௦", "௧", "௨", "௩", "௪", "௫", "௬", "௭", "௮", "௯">>,
       <<"೦", "೧", "೨", "೩", "೪", "೫", "೬", "೭", "೮", "೯">>,
       <<"෦", "෧", "෨", "෩", "෪", "෫", "෬", "෭", "෮", "෯">>,
       <<"໐", "໑", "໒", "໓", "໔", "໕", "໖", "໗", "໘", "໙">>,
       <<"႐", "႑", "႒", "႓", "႔", "႕", "႖", "႗", "႘", "႙">>,
       <<"០", "១", "២", "៣", "៤", "៥", "៦", "៧", "៨", "៩">>,
       <<"᧐", "᧑", "᧒", "᧓", "᧔", "᧕", "᧖", "᧗", "᧘", "᧙">>,
       <<"᪀", "᪁", "᪂", "᪃", "᪄", "᪅", "᪆", "᪇", "᪈", "᪉">>,
       <<"᪐", "᪑", "᪒", "᪓", "᪔", "᪕", "᪖", "᪗", "᪘", "᪙">>,
       <<"᮰", "᮱", "᮲", "᮳", "᮴", "᮵", "᮶", "᮷", "᮸", "᮹">>,
       <<"꣐", "꣑", "꣒", "꣓", "꣔", "꣕", "꣖", "꣗", "꣘", "꣙">>,
       <<"꧐", "꧑", "꧒", "꧓", "꧔", "꧕", "꧖", "꧗", "꧘", "꧙">>,
       <<"꧰", "꧱", "꧲", "꧳", "꧴", "꧵", "꧶", "꧷", "꧸", "꧹">>,
       <<"꯰", "꯱", "꯲", "꯳", "꯴", "꯵", "꯶", "꯷", "꯸", "꯹">> }

\* A decimal digit for int().
IsDigit(c) ==
    \/ \E i \in 1..10 : Digits[i] = c
    \/ \E script \in UnicodeDigits : \E i \in 1..10 : script[i] = c

DigitVal(c) ==
    IF \E i \in 1..10 : Digits[i] = c
    THEN (CHOOSE i \in 1..10 : Digits[i] = c) - 1
    ELSE (CHOOSE i \in 1..10 : \E script \in UnicodeDigits : script[i] = c) - 1

\* The whitespace characters of Python that a string of this module can hold:
\* U+0009..U+000D, U+001C..U+001F, U+0020, U+0085, U+00A0 and U+1680.
VerticalTab == ""
FormFeed == "\f"
FileSeparator == ""
GroupSeparator == ""
RecordSeparator == ""
UnitSeparator == ""
NextLine == ""
NoBreakSpace == " "
OghamSpaceMark == " "

Whitespace ==
    {" ", "\t", "\n", "\r", VerticalTab, FormFeed, FileSeparator, GroupSeparator,
     RecordSeparator, UnitSeparator, NextLine, NoBreakSpace, OghamSpaceMark}

\* str.isspace for one character.
IsSpace(c) == c \in Whitespace

Min(a, b) == IF a <= b THEN a ELSE b

Max(a, b) == IF a >= b THEN a ELSE b

\* str(n) for an integer n: decimal digits, a leading "-" when negative.
RECURSIVE NatToStr(_)
NatToStr(n) ==
    IF n < 10 THEN <<Digits[n + 1]>>
    ELSE NatToStr(n \div 10) \o <<Digits[(n % 10) + 1]>>

IntToStr(n) == IF n < 0 THEN <<"-">> \o NatToStr(0 - n) ELSE NatToStr(n)

\* s.strip(): leading and trailing whitespace removed.
RECURSIVE LStrip(_)
LStrip(s) ==
    IF s # <<>> /\ IsSpace(Head(s)) THEN LStrip(Tail(s)) ELSE s

RECURSIVE RStrip(_)
RStrip(s) ==
    IF s # <<>> /\ IsSpace(s[Len(s)]) THEN RStrip(SubSeq(s, 1, Len(s) - 1)) ELSE s

Strip(s) == RStrip(LStrip(s))

\* c in s, for a one-character c.
Contains(s, c) == \E i \in 1..Len(s) : s[i] = c

\* Index of the first occurrence of c in s (s contains c).
FirstIndex(s, c) == CHOOSE i \in 1..Len(s) : s[i] = c /\ \A j \in 1..(i - 1) : s[j] # c

\* s.split(c): the pieces of s between the occurrences of c; always at least one piece.
RECURSIVE Split(_, _)
Split(s, c) ==
    IF ~Contains(s, c) THEN <<s>>
    ELSE LET i == FirstIndex(s, c)
         IN  <<SubSeq(s, 1, i - 1)>> \o Split(SubSeq(s, i + 1, Len(s)), c)

\* s.split(c, 1) for an s that contains c: the text before and after the first c.
SplitOnce(s, c) ==
    LET i == FirstIndex(s, c)
    IN  <<SubSeq(s, 1, i - 1), SubSeq(s, i + 1, Len(s))>>

\* sep.join(parts)
RECURSIVE Join(_, _)
Join(parts, sep) ==
    IF parts = <<>> THEN <<>>
    ELSE IF Len(parts) = 1 THEN parts[1]
    ELSE parts[1] \o sep \o Join(Tail(parts), sep)

RECURSIVE DecimalValue(_, _)
DecimalValue(s, acc) ==
    IF s = <<>> THEN acc ELSE DecimalValue(Tail(s), acc * 10 + DigitVal(Head(s)))

\* The digits of an integer literal: one or more decimal digits, with single
\* underscores allowed between two digits.
DigitGroups(body) ==
    /\ body # <<>>
    /\ IsDigit(body[1])
    /\ IsDigit(body[Len(body)])
    /\ \A i \in 1..Len(body) :
           IsDigit(body[i]) \/ (body[i] = "_" /\ i > 1 /\ IsDigit(body[i - 1]))

\* The whitespace int() ignores around the literal: that of str.strip without the
\* four separators U+001C..U+001F.
IsIntSpace(c) ==
    IsSpace(c) /\ c \notin {FileSeparator, GroupSeparator, RecordSeparator, UnitSeparator}

RECURSIVE IntLStrip(_)
IntLStrip(s) ==
    IF s # <<>> /\ IsIntSpace(Head(s)) THEN IntLStrip(Tail(s)) ELSE s

RECURSIVE IntRStrip(_)
IntRStrip(s) ==
    IF s # <<>> /\ IsIntSpace(s[Len(s)]) THEN IntRStrip(SubSeq(s, 1, Len(s) - 1)) ELSE s

\* sys.int_info.default_max_str_digits: int() of a literal with more digits raises
\* ValueError.
MAX_STR_DIGITS == 4300

\* The parts of a literal without its surrounding whitespace: whether it has a sign,
\* what follows the sign, and the digits of that.
IntSigned(t) == t # <<>> /\ Head(t) \in {"-", "+"}

IntBody(t) == IF IntSigned(t) THEN Tail(t) ELSE t

IntDigits(t) == SelectSeq(IntBody(t), IsDigit)

\* int() of a literal without surrounding whitespace: one optional sign, then decimal
\* digits with single underscores allowed between them; anything else, and a literal
\* of more than MAX_STR_DIGITS digits, raises ValueError.
IntLiteral(t) ==
    IF ~DigitGroups(IntBody(t)) \/ Len(IntDigits(t)) > MAX_STR_DIGITS
    THEN [raised |-> TRUE, exc |-> "ValueError"]
    ELSE [raised |-> FALSE,
          value |-> IF Head(t) = "-" THEN 0 - DecimalValue(IntDigits(t), 0)
                    ELSE DecimalValue(IntDigits(t), 0)]

\* int(s): surrounding whitespace is ignored.
PyInt(s) == IntLiteral(IntRStrip(IntLStrip(s)))

\* range(a, b) as a set.
PyRange(a, b) == {i \in a..(b - 1) : TRUE}

\* sorted(S) for a finite set of integers.
RECURSIVE Sorted(_)
Sorted(S) ==
    IF S = {} THEN <<>>
    ELSE LET m == CHOOSE x \in S : \A y \in S : x <= y
         IN  <<m>> \o Sorted(S \ {m})

(***************************************************************************)
(* parse_page_range                                                        *)
(***************************************************************************)
\* A variant of PairPart that forgets the "+ 1" of range(start, end + 1).
PairPartExclusiveEnd(part, total_pages_) ==
    LET se == SplitOnce(part, "-")
        s == PyInt(Strip(se[1]))
        e == PyInt(Strip(se[2]))
    IN  IF s.raised THEN s
        ELSE IF e.raised THEN e
        ELSE [raised |-> FALSE,
              value |-> PyRange(Max(0, s.value), Min(total_pages_ - 1, e.value))]

\* The pair branch of the loop body: start, end = part.split("-", 1), both through int().
PairPart(part, total_pages_) ==
    LET se == SplitOnce(part, "-")
        s == PyInt(Strip(se[1]))
        e == PyInt(Strip(se[2]))
    IN  IF s.raised THEN s
        ELSE IF e.raised THEN e
        ELSE [raised |-> FALSE,
              value |-> PyRange(Max(0, s.value), Min(total_pages_ - 1, e.value) + 1)]

\* A variant of SinglePart that checks only the lower bound.
SinglePartNoUpperBound(part, total_pages_) ==
    LET n == PyInt(Strip(part))
    IN  IF n.raised THEN n
        ELSE [raised |-> FALSE, value |-> IF 0 <= n.value THEN {n.value} ELSE {}]

\* The single-page branch of the loop body.
SinglePart(part, total_pages_) ==
    LET n == PyInt(Strip(part))
    IN  IF n.raised THEN n
        ELSE [raised |-> FALSE,
              value |-> IF 0 <= n.value /\ n.value < total_pages_ THEN {n.value} ELSE {}]

\* A variant of ClausePages that skips a clause int() rejects instead of raising.
ClausePagesSkipBad(rawpart, total_pages_) ==
    LET part == Strip(rawpart)
        r == IF Contains(part, "-") THEN PairPart(part, total_pages_)
             ELSE SinglePart(part, total_pages_)
    IN  IF r.raised THEN [raised |-> FALSE, value |-> {}] ELSE r

\* One iteration of the loop over page_range.split(","): what the clause adds to pages.
ClausePages(rawpart, total_pages_) ==
    LET part == Strip(rawpart)
    IN  IF Contains(part, "-") THEN PairPart(part, total_pages_)
        ELSE SinglePart(part, total_pages_)

\* The loop: the first clause that raises ends the call; otherwise the union.
RECURSIVE LoopParts(_, _, _)
LoopParts(parts, total_pages_, pages) ==
    IF parts = <<>> THEN [raised |-> FALSE, value |-> pages]
    ELSE LET r == ClausePages(Head(parts), total_pages_)
         IN  IF r.raised THEN r
             ELSE LoopParts(Tail(parts), total_pages_, pages \cup r.value)

\* A variant of AllPages that numbers the pages from 1.
AllPagesOneBased(total_pages_) == [i \in 1..total_pages_ |-> i]

\* list(range(total_pages))
AllPages(total_pages_) == [i \in 1..total_pages_ |-> i - 1]

parse_page_range(page_range_, total_pages_) ==
    IF page_range_ = None
    THEN [raised |-> FALSE, value |-> AllPages(total_pages_)]
    ELSE LET r == LoopParts(Split(page_range_, ","), total_pages_, {})
         IN  IF r.raised THEN r
             ELSE [raised |-> FALSE, value |-> Sorted(r.value)]

(***************************************************************************)
(* _table_to_markdown                                                      *)
(***************************************************************************)
\* val.replace("\n", " ")
ReplaceNewlines(s) == [i \in 1..Len(s) |-> IF s[i] = "\n" THEN " " ELSE s[i]]

\* The inner loop body: str(cell) if cell is not None else "", newlines replaced,
\* stripped.  Cells are strings or None, and str() of a string is that string.
CleanCell(cell) ==
    IF cell = None THEN <<>> ELSE Strip(ReplaceNewlines(cell))

\* The first loop: a fresh list of cleaned cells per row of data.
CleanRows(data) ==
    [i \in 1..Len(data) |-> [j \in 1..Len(data[i]) |-> CleanCell(data[i][j])]]

\* max(len(row) for row in rows), for a non-empty rows.
NumCols(rows) ==
    CHOOSE n \in {Len(rows[i]) : i \in 1..Len(rows)} :
        \A i \in 1..Len(rows) : Len(rows[i]) <= n

\* while len(row) < num_cols: row.append("")
RECURSIVE PadRow(_, _)
PadRow(row, num_cols) ==
    IF Len(row) < num_cols THEN PadRow(Append(row, <<>>), num_cols) ELSE row

PadRows(rows, num_cols) == [i \in 1..Len(rows) |-> PadRow(rows[i], num_cols)]

Dashes == <<"-", "-", "-">>

CellSep == <<" ", "|", " ">>

\* "| " + " | ".join(row) + " |"
RenderRow(row) == <<"|", " ">> \o Join(row, CellSep) \o <<" ", "|">>

\* The list lines: header, separator, data rows.
MarkdownLines(rows, num_cols) ==
    <<RenderRow(rows[1]), RenderRow([j \in 1..num_cols |-> Dashes])>>
        \o [i \in 1..(Len(rows) - 1) |-> RenderRow(rows[i + 1])]

\* "not x" for a list (the engine's extract() returns a list of rows).
Falsy(x) == x = <<>>

_table_to_markdown(data) ==
    IF Falsy(data) THEN <<>>
    ELSE LET cleaned == CleanRows(data)
             num_cols == NumCols(cleaned)
         IN  Join(MarkdownLines(PadRows(cleaned, num_cols), num_cols), <<"\n">>)

\* The list objects of a call on n rows: objects 1..n are the rows of the argument,
\* objects n+1..2n the lists "cleaned" that the first loop builds, one per row.
HeapAfterClean(data) ==
    [id \in 1..(2 * Len(data)) |->
        IF id <= Len(data) THEN data[id] ELSE CleanRows(data)[id - Len(data)]]

\* rows.append(cleaned): the objects that the list rows refers to.
RowIds(data) == [i \in 1..Len(data) |-> Len(data) + i]

\* for row in rows: while len(row) < num_cols: row.append(""), on the objects of rows.
HeapAfterPad(heap, row_ids, num_cols) ==
    [id \in 1..Len(heap) |->
        IF \E i \in 1..Len(row_ids) : row_ids[i] = id
        THEN PadRow(heap[id], num_cols) ELSE heap[id]]

\* The argument after the call: its row objects as the loops leave them.
DataAfterMarkdown(data) ==
    IF Falsy(data) THEN data
    ELSE [i \in 1..Len(data) |->
             HeapAfterPad(HeapAfterClean(data), RowIds(data), NumCols(CleanRows(data)))[i]]

(***************************************************************************)
(* _extract_page_tables                                                    *)
(* A table handle of the engine is [raises, grid, bbox]: extract() raises  *)
(* or returns grid.  A page's find_tables() raises or returns the handles. *)
(***************************************************************************)
\* A variant of TableDict whose cols is the length of the longest row.
TableDictWidestRow(i, table) ==
    [table_index |-> i,
     bbox |-> table.bbox,
     rows |-> Len(table.grid),
     cols |-> IF Falsy(table.grid) THEN 0 ELSE NumCols(table.grid),
     data |-> table.grid]

\* The dict built for table number i (0-based) of the page.
TableDict(i, table) ==
    [table_index |-> i,
     bbox |-> table.bbox,
     rows |-> Len(table.grid),
     cols |-> IF Falsy(table.grid) THEN 0 ELSE Len(table.grid[1]),
     data |-> table.grid]

\* The loop over enumerate(tables) inside the try block, from index i on, with the
\* lists built so far; the except clause logs one warning and the function returns
\* the two lists as they are.
RECURSIVE TablesLoop(_, _, _, _)
TablesLoop(tables, i, tables_data, tables_markdown) ==
    IF i > Len(tables)
    THEN [tables |-> tables_data, markdown |-> tables_markdown, warnings |-> 0]
    ELSE LET table == tables[i]
         IN  IF table.raises
             THEN [tables |-> tables_data, markdown |-> tables_markdown, warnings |-> 1]
             ELSE IF Falsy(table.grid)
             THEN TablesLoop(tables, i + 1, tables_data, tables_markdown)
             ELSE LET md == _table_to_markdown(table.grid)
                  IN  TablesLoop(tables, i + 1,
                                 Append(tables_data, TableDict(i - 1, table)),
                                 IF md # <<>> THEN Append(tables_markdown, md)
                                 ELSE tables_markdown)

_extract_page_tables(page) ==
    IF page.find_raises
    THEN [tables |-> <<>>, markdown |-> <<>>, warnings |-> 1]
    ELSE TablesLoop(page.tables, 1, <<>>, <<>>)

(***************************************************************************)
(* Range expressions handed to parse_page_range.  An expression is written *)
(* from a list of clause descriptors: a single page n, a pair a-b (each    *)
(* possibly padded with blanks), or a raw token.                           *)
(***************************************************************************)
ClauseNums == {0, 1, 2, 10}

RawTokens ==
    { <<>>, <<"a">>, <<"1", "-", "x">>, <<"a", "-", "1">>, <<"-">>,
      <<"1", "-", "2", "-", "3">>, <<"1", " ", "2">>, <<"1", "-">>,
      <<"1", "_", "_", "0">>, <<"_", "1">> }

\* Integers in spellings that str(n) does not produce: an underscore between digits,
\* whitespace other than the blank, an explicit plus sign.
SpelledInts ==
    { [k |-> "s", n |-> 1, raw |-> <<"0", "_", "1">>],
      [k |-> "s", n |-> 1, raw |-> <<FormFeed, "1", VerticalTab>>],
      [k |-> "s", n |-> 2, raw |-> <<NoBreakSpace, "+", "2">>],
      [k |-> "s", n |-> 1, raw |-> <<OghamSpaceMark, "۱">>] }

ClauseDescs ==
    [k : {"n"}, n : ClauseNums \cup {-1}, pad : {FALSE}]
    \cup {[k |-> "n", n |-> 1, pad |-> TRUE]}
    \cup [k : {"r"}, a : ClauseNums, b : ClauseNums, pad : {FALSE}]
    \cup {[k |-> "r", a |-> 0, b |-> 1, pad |-> TRUE]}
    \cup {[k |-> "r", a |-> 1, b |-> -2, pad |-> FALSE]}
    \cup [k : {"x"}, raw : RawTokens]
    \cup SpelledInts

Pad(s, pad) == IF pad THEN <<" ">> \o s \o <<" ">> ELSE s

ClauseText(c) ==
    IF c.k = "n" THEN Pad(IntToStr(c.n), c.pad)
    ELSE IF c.k = "r" THEN Pad(IntToStr(c.a), c.pad) \o <<"-">> \o Pad(IntToStr(c.b), c.pad)
    ELSE c.raw

ExprText(cs) == Join([i \in 1..Len(cs) |-> ClauseText(cs[i])], <<",">>)

ClauseLists == UNION {[1..n -> ClauseDescs] : n \in 1..MaxClauses}

NotCalled == [raised |-> FALSE, value |-> <<>>]

RangeIdle ==
    /\ clauses = <<>>
    /\ page_range = None
    /\ via_endpoint = FALSE
    /\ total_pages = 0
    /\ rp_called = FALSE
    /\ rp_arg = None
    /\ rp_result = NotCalled

\* The endpoints of main.py pass "page_range if page_range else None".
EndpointPageRange(form_value) ==
    IF form_value = None \/ form_value = <<>> THEN None ELSE form_value

CallParsePageRange ==
    /\ scenario = "parse_page_range"
    /\ ~rp_called
    /\ rp_called' = TRUE
    /\ rp_arg' = IF via_endpoint THEN EndpointPageRange(page_range) ELSE page_range
    /\ rp_result' = parse_page_range(rp_arg', total_pages)
    /\ UNCHANGED <<scenario, clauses, page_range, via_endpoint, total_pages, tableVars,
                   extractVars, scanVars>>

(***************************************************************************)
(* Grids and pages handed to the table functions.                          *)
(***************************************************************************)
CellA == <<"a">>

CellB == <<"b">>

CellSpaced == <<" ", "b", " ">>

CellTwoLines == <<"c", "\n", "d">>

CellPipe == <<"x", "|", "y">>

RowSamples ==
    { <<>>, <<CellA>>, <<None>>, <<CellA, CellB>>, <<CellTwoLines, None>>,
      <<CellSpaced>>, <<CellPipe, CellA>>, <<CellA, CellB, CellA>> }

Grids == UNION {[1..n -> RowSamples] : n \in 0..MaxRows}

Bbox == <<0, 0, 1, 1>>

RaisingTable == [raises |-> TRUE, grid |-> <<>>, bbox |-> Bbox]

PageGrids ==
    { <<>>, <<<<>>>>, <<<<>>, <<CellA>>>>, <<<<CellA>>, <<>>>>, <<<<CellA, CellB>>, <<CellB>>>>,
      <<<<None>>>> }

TableHandles ==
    {RaisingTable} \cup [raises : {FALSE}, grid : PageGrids, bbox : {Bbox}]

TableLists == UNION {[1..n -> TableHandles] : n \in 0..MaxTables}

TablePages ==
    {[find_raises |-> TRUE, tables |-> <<>>]}
    \cup [find_raises : {FALSE}, tables : TableLists]

NoPage == [find_raises |-> FALSE, tables |-> <<>>]

NoTables == [tables |-> <<>>, markdown |-> <<>>, warnings |-> 0]

TableIdle ==
    /\ tm_data0 = <<>>
    /\ tm_data = <<>>
    /\ tm_called = FALSE
    /\ tm_md = <<>>
    /\ pg_page = NoPage
    /\ pg_called = FALSE
    /\ pg_result = NoTables

CallTableToMarkdown ==
    /\ scenario = "_table_to_markdown"
    /\ ~tm_called
    /\ tm_called' = TRUE
    /\ tm_md' = _table_to_markdown(tm_data)
    /\ tm_data' = DataAfterMarkdown(tm_data)
    /\ UNCHANGED <<scenario, rangeVars, extractVars, scanVars, tm_data0, pg_page, pg_called,
                   pg_result>>

CallExtractPageTables ==
    /\ scenario = "_extract_page_tables"
    /\ ~pg_called
    /\ pg_called' = TRUE
    /\ pg_result' = _extract_page_tables(pg_page)
    /\ UNCHANGED <<scenario, rangeVars, extractVars, scanVars, tm_data0, tm_data, tm_called,
                   tm_md, pg_page>>

(***************************************************************************)
(* The entry points: extract_full, extract_text_only, extract_tables_only. *)
(* An engine page is [text, images, text_blocks, raises, find_raises,      *)
(* tables]: raises names the engine call that raises on this page, if any. *)
(***************************************************************************)
SCANNED_TEXT_LIMIT == 20

\* A variant of _detect_scanned_page that measures the text as given, not stripped.
_detect_scanned_page_unstripped(page, text) ==
    Len(page.images) > 0 /\ Len(text) < SCANNED_TEXT_LIMIT

\* _detect_scanned_page: images present and fewer than 20 characters of stripped text.
_detect_scanned_page(page, text) ==
    Len(page.images) > 0 /\ Len(Strip(text)) < SCANNED_TEXT_LIMIT

\* _extract_page_text: the text the engine gives, in either layout mode, unchanged.
_extract_page_text(page) == page.text

\* _extract_page_images: the engine's descriptors with their position.
_extract_page_images(page) ==
    [i \in 1..Len(page.images) |->
        [index |-> i - 1, xref |-> page.images[i].xref, width |-> page.images[i].width,
         height |-> page.images[i].height, colorspace |-> page.images[i].colorspace]]

Filename == <<"a", ".", "p", "d", "f">>

FailedToOpen ==
    <<"F", "a", "i", "l", "e", "d", " ", "t", "o", " ", "o", "p", "e", "n", " ",
      "P", "D", "F", ":", " ">>

NoResponse == [returned |-> FALSE]

\* A variant of FailedResponse whose error is the engine's message alone.
FailedResponseBareError(entry, e) ==
    IF entry = "extract_full"
    THEN [returned |-> TRUE, success |-> FALSE, filename |-> Filename, total_pages |-> 0,
          pages |-> <<>>, full_text |-> <<>>, full_text_with_tables |-> <<>>,
          scanned_page_count |-> 0, error |-> e]
    ELSE IF entry = "extract_text_only"
    THEN [returned |-> TRUE, success |-> FALSE, filename |-> Filename, total_pages |-> 0,
          text |-> <<>>, scanned_page_count |-> 0, error |-> e]
    ELSE [returned |-> TRUE, success |-> FALSE, filename |-> Filename, total_pages |-> 0,
          tables |-> <<>>, tables_markdown |-> <<>>, error |-> e]

\* The response of the except branch around pymupdf.open, per entry point; fields
\* the constructor call leaves out take the defaults of models.py.
FailedResponse(entry, e) ==
    IF entry = "extract_full"
    THEN [returned |-> TRUE, success |-> FALSE, filename |-> Filename, total_pages |-> 0,
          pages |-> <<>>, full_text |-> <<>>, full_text_with_tables |-> <<>>,
          scanned_page_count |-> 0, error |-> FailedToOpen \o e]
    ELSE IF entry = "extract_text_only"
    THEN [returned |-> TRUE, success |-> FALSE, filename |-> Filename, total_pages |-> 0,
          text |-> <<>>, scanned_page_count |-> 0, error |-> FailedToOpen \o e]
    ELSE [returned |-> TRUE, success |-> FALSE, filename |-> Filename, total_pages |-> 0,
          tables |-> <<>>, tables_markdown |-> <<>>, error |-> FailedToOpen \o e]

NewAcc ==
    [pages |-> <<>>, text_parts |-> <<>>, twt_parts |-> <<>>, scanned_count |-> 0,
     all_tables |-> <<>>, all_markdown |-> <<>>]

BlankLine == <<"\n", "\n">>

\* A variant of the iteration of extract_full that counts every page as scanned.
FullStepCountsEvery(call, page, page_num, acc) ==
    LET text == _extract_page_text(page)
        is_scanned == _detect_scanned_page(page, text)
        found == IF call.extract_tables THEN _extract_page_tables(page) ELSE NoTables
        image_meta == IF call.extract_images THEN _extract_page_images(page) ELSE <<>>
        page_result ==
            [page_number |-> page_num, text |-> text, tables |-> found.tables,
             tables_markdown |-> found.markdown, images |-> image_meta,
             is_scanned |-> is_scanned, text_block_count |-> page.text_blocks]
        with_tables ==
            IF found.markdown # <<>>
            THEN text \o BlankLine \o Join(found.markdown, BlankLine) ELSE text
    IN  [acc |-> [acc EXCEPT !.pages = Append(@, page_result),
                             !.text_parts = Append(@, text),
                             !.twt_parts = Append(@, with_tables),
                             !.scanned_count = @ + 1],
         found |-> found]

\* One iteration of the loop of extract_full, for a page on which nothing raises
\* outside table discovery.
FullStep(call, page, page_num, acc) ==
    LET text == _extract_page_text(page)
        is_scanned == _detect_scanned_page(page, text)
        found == IF call.extract_tables THEN _extract_page_tables(page) ELSE NoTables
        image_meta == IF call.extract_images THEN _extract_page_images(page) ELSE <<>>
        page_result ==
            [page_number |-> page_num, text |-> text, tables |-> found.tables,
             tables_markdown |-> found.markdown, images |-> image_meta,
             is_scanned |-> is_scanned, text_block_count |-> page.text_blocks]
        with_tables ==
            IF found.markdown # <<>>
            THEN text \o BlankLine \o Join(found.markdown, BlankLine) ELSE text
    IN  [acc |-> [acc EXCEPT !.pages = Append(@, page_result),
                             !.text_parts = Append(@, text),
                             !.twt_parts = Append(@, with_tables),
                             !.scanned_count = IF is_scanned THEN @ + 1 ELSE @],
         found |-> found]

\* One iteration of the loop of extract_text_only.
TextStep(call, page, page_num, acc) ==
    LET text == _extract_page_text(page)
    IN  [acc |-> [acc EXCEPT !.text_parts = Append(@, text),
                             !.scanned_count =
                                 IF _detect_scanned_page(page, text) THEN @ + 1 ELSE @],
         found |-> NoTables]

\* table["page_number"] = page_num
Tagged(table, page_num) ==
    [table_index |-> table.table_index, bbox |-> table.bbox, rows |-> table.rows,
     cols |-> table.cols, data |-> table.data, page_number |-> page_num]

\* One iteration of the loop of extract_tables_only.
TablesStep(call, page, page_num, acc) ==
    LET found == _extract_page_tables(page)
    IN  [acc |-> [acc EXCEPT !.all_tables =
                                 @ \o [k \in 1..Len(found.tables) |->
                                          Tagged(found.tables[k], page_num)],
                             !.all_markdown = @ \o found.markdown],
         found |-> found]

PageStep(call, page, page_num, acc) ==
    IF call.entry = "extract_full" THEN FullStep(call, page, page_num, acc)
    ELSE IF call.entry = "extract_text_only" THEN TextStep(call, page, page_num, acc)
    ELSE TablesStep(call, page, page_num, acc)

\* Whether an engine call outside the guarded table discovery raises on the page:
\* extract_full and extract_text_only call get_text and get_images, extract_tables_only
\* calls neither.
PageRaises(call, page) ==
    call.entry # "extract_tables_only" /\ page.raises # "none"

\* The success response, per entry point.
SuccessResponse(call, n, acc) ==
    IF call.entry = "extract_full"
    THEN [returned |-> TRUE, success |-> TRUE, filename |-> Filename, total_pages |-> n,
          pages |-> acc.pages,
          full_text |-> Strip(Join(acc.text_parts, <<"\n">>)),
          full_text_with_tables |-> Strip(Join(acc.twt_parts, <<"\n">>)),
          scanned_page_count |-> acc.scanned_count, error |-> None]
    ELSE IF call.entry = "extract_text_only"
    THEN [returned |-> TRUE, success |-> TRUE, filename |-> Filename, total_pages |-> n,
          text |-> Strip(Join(acc.text_parts, <<"\n">>)),
          scanned_page_count |-> acc.scanned_count, error |-> None]
    ELSE [returned |-> TRUE, success |-> TRUE, filename |-> Filename, total_pages |-> n,
          tables |-> acc.all_tables, tables_markdown |-> acc.all_markdown,
          error |-> None]

\* doc.close()
doc_close(handle) ==
    [handle EXCEPT !.open = FALSE, !.closes = @ + 1]

\* A variant of Finally that closes only when the block returns.
FinallyOnlyOnReturn(handle, raising) ==
    IF raising THEN handle ELSE doc_close(handle)

\* The finally clause of the second try block: runs when the block returns and when
\* it raises.
Finally(handle, raising) == doc_close(handle)

\* doc[page_num]
doc_read(handle) ==
    IF handle.open THEN handle ELSE [handle EXCEPT !.reads_after_close = @ + 1]

NoHandle == [open |-> FALSE, closes |-> 0, reads_after_close |-> 0]

\* pymupdf.open raises: the except branch returns the failed response.
OpenFails ==
    /\ scenario = "extract"
    /\ ex_pc = "start"
    /\ ~ex_doc.opens
    /\ ex_response' = FailedResponse(ex_call.entry, ex_doc.open_error)
    /\ ex_pc' = "returned"
    /\ UNCHANGED <<scenario, rangeVars, tableVars, scanVars, ex_call, ex_clauses, ex_doc, ex_handle,
                   ex_page_indices, ex_pos, ex_acc, ex_log, ex_warnings, ex_exc>>

\* pymupdf.open returns the handle.
OpenSucceeds ==
    /\ scenario = "extract"
    /\ ex_pc = "start"
    /\ ex_doc.opens
    /\ ex_handle' = [open |-> TRUE, closes |-> 0, reads_after_close |-> 0]
    /\ ex_pc' = "opened"
    /\ UNCHANGED <<scenario, rangeVars, tableVars, scanVars, ex_call, ex_clauses, ex_doc,
                   ex_page_indices, ex_pos, ex_acc, ex_log, ex_warnings, ex_response,
                   ex_exc>>

\* total_pages = len(doc); page_indices = parse_page_range(page_range, total_pages):
\* a list, and the lists of the loop are set up.
ResolvePages ==
    /\ scenario = "extract"
    /\ ex_pc = "opened"
    /\ LET r == parse_page_range(ex_call.page_range, Len(ex_doc.pages))
       IN  /\ ~r.raised
           /\ ex_page_indices' = r.value
    /\ ex_acc' = NewAcc
    /\ ex_pc' = "loop"
    /\ UNCHANGED <<scenario, rangeVars, tableVars, scanVars, ex_call, ex_clauses, ex_doc, ex_handle,
                   ex_pos, ex_log, ex_warnings, ex_response, ex_exc>>

\* parse_page_range raises: the finally clause runs and the exception leaves the call.
ResolvePagesRaises ==
    /\ scenario = "extract"
    /\ ex_pc = "opened"
    /\ LET r == parse_page_range(ex_call.page_range, Len(ex_doc.pages))
       IN  /\ r.raised
           /\ ex_exc' = <<r.exc>>
    /\ ex_handle' = Finally(ex_handle, TRUE)
    /\ ex_pc' = "raised"
    /\ UNCHANGED <<scenario, rangeVars, tableVars, scanVars, ex_call, ex_clauses, ex_doc,
                   ex_page_indices, ex_pos, ex_acc, ex_log, ex_warnings, ex_response>>

\* One iteration of the page loop that runs to its end.
ProcessPage ==
    /\ scenario = "extract"
    /\ ex_pc = "loop"
    /\ ex_pos < Len(ex_page_indices)
    /\ LET page_num == ex_page_indices[ex_pos + 1]
           page == ex_doc.pages[page_num + 1]
           step == PageStep(ex_call, page, page_num, ex_acc)
       IN  /\ ~PageRaises(ex_call, page)
           /\ ex_handle' = doc_read(ex_handle)
           /\ ex_acc' = step.acc
           /\ ex_log' = Append(ex_log, [page_number |-> page_num, found |-> step.found])
           /\ ex_warnings' = ex_warnings + step.found.warnings
    /\ ex_pos' = ex_pos + 1
    /\ UNCHANGED <<scenario, rangeVars, tableVars, scanVars, ex_call, ex_clauses, ex_doc,
                   ex_page_indices, ex_pc, ex_response, ex_exc>>

\* What an iteration that raises has appended to the lists of the call by then:
\* extract_text_only appends the text of the page before the classifier asks for the
\* images; extract_full appends only after both engine calls.
RaisingStep(call, page, acc) ==
    IF call.entry = "extract_text_only" /\ page.raises = "get_images"
    THEN [acc EXCEPT !.text_parts = Append(@, _extract_page_text(page))]
    ELSE acc

\* An iteration in which get_text or get_images raises: the finally clause runs and
\* the exception leaves the call.
ProcessPageRaises ==
    /\ scenario = "extract"
    /\ ex_pc = "loop"
    /\ ex_pos < Len(ex_page_indices)
    /\ LET page_num == ex_page_indices[ex_pos + 1]
           page == ex_doc.pages[page_num + 1]
       IN  /\ PageRaises(ex_call, page)
           /\ ex_handle' = Finally(doc_read(ex_handle), TRUE)
           /\ ex_exc' = <<"RuntimeError", page.raises>>
           /\ ex_acc' = RaisingStep(ex_call, page, ex_acc)
    /\ ex_pc' = "raised"
    /\ UNCHANGED <<scenario, rangeVars, tableVars, scanVars, ex_call, ex_clauses, ex_doc,
                   ex_page_indices, ex_pos, ex_log, ex_warnings, ex_response>>

\* The loop is over: the response is built, the finally clause runs, the call returns.
Return ==
    /\ scenario = "extract"
    /\ ex_pc = "loop"
    /\ ex_pos = Len(ex_page_indices)
    /\ ex_response' = SuccessResponse(ex_call, Len(ex_doc.pages), ex_acc)
    /\ ex_handle' = Finally(ex_handle, FALSE)
    /\ ex_pc' = "returned"
    /\ UNCHANGED <<scenario, rangeVars, tableVars, scanVars, ex_call, ex_clauses, ex_doc,
                   ex_page_indices, ex_pos, ex_acc, ex_log, ex_warnings, ex_exc>>

(***************************************************************************)
(* Calls and documents handed to the entry points.                         *)
(***************************************************************************)
LongText == [i \in 1..(SCANNED_TEXT_LIMIT + 1) |-> IF i = 6 THEN " " ELSE "x"]

Image == [xref |-> 7, width |-> 2, height |-> 3, colorspace |-> 1]

GoodTable == [raises |-> FALSE, grid |-> <<<<CellA, CellB>>, <<CellB>>>>, bbox |-> Bbox]

PlainPage ==
    [text |-> LongText, images |-> <<>>, text_blocks |-> 2, raises |-> "none",
     find_raises |-> FALSE, tables |-> <<>>]

PageSamples ==
    { PlainPage,
      [PlainPage EXCEPT !.text = <<" ", "\n">>, !.images = <<Image>>, !.text_blocks = 0],
      [PlainPage EXCEPT !.text = <<"t">>, !.tables = <<GoodTable>>],
      [PlainPage EXCEPT !.tables = <<GoodTable, RaisingTable>>],
      [PlainPage EXCEPT !.find_raises = TRUE],
      [PlainPage EXCEPT !.raises = "get_text"],
      [PlainPage EXCEPT !.raises = "get_images", !.images = <<Image>>] }

Docs ==
    [opens : {FALSE}, open_error : {<<>>, <<"b", "a", "d">>}, pages : {<<>>}]
    \cup [opens : {TRUE}, open_error : {<<>>},
          pages : UNION {[1..n -> PageSamples] : n \in 0..MaxDocPages}]

ExtractClauseLists ==
    { <<>>,
      <<[k |-> "n", n |-> 0, pad |-> FALSE]>>,
      <<[k |-> "r", a |-> 1, b |-> 10, pad |-> FALSE]>>,
      <<[k |-> "n", n |-> 1, pad |-> FALSE], [k |-> "n", n |-> 0, pad |-> FALSE]>>,
      <<[k |-> "x", raw |-> <<"a">>]>>,
      <<[k |-> "n", n |-> 0, pad |-> FALSE], [k |-> "x", raw |-> <<"1", "-", "x">>]>> }

Calls ==
    [entry : {"extract_full"}, extract_tables : BOOLEAN, extract_images : BOOLEAN]
    \cup [entry : {"extract_text_only", "extract_tables_only"},
          extract_tables : {FALSE}, extract_images : {FALSE}]

NoCall ==
    [entry |-> "none", extract_tables |-> FALSE, extract_images |-> FALSE,
     page_range |-> None]

NoDoc == [opens |-> FALSE, open_error |-> <<>>, pages |-> <<>>]

ExtractStart ==
    /\ ex_pc = "start"
    /\ ex_handle = NoHandle
    /\ ex_page_indices = <<>>
    /\ ex_pos = 0
    /\ ex_acc = NewAcc
    /\ ex_log = <<>>
    /\ ex_warnings = 0
    /\ ex_response = NoResponse
    /\ ex_exc = None

ExtractIdle ==
    /\ ex_call = NoCall
    /\ ex_clauses = <<>>
    /\ ex_doc = NoDoc
    /\ ExtractStart

(***************************************************************************)
(* Pages and texts handed to _detect_scanned_page.  A text is written as   *)
(* leading blanks, a body of n characters that starts and ends with a      *)
(* non-blank, and trailing blanks.                                         *)
(***************************************************************************)
Blanks == { <<>>, <<" ">>, <<"\n", "\t", " ">>, <<FormFeed, NoBreakSpace>> }

\* A body of n characters; a longer body has a blank inside.
TextBody(n) == [i \in 1..n |-> IF i = 6 /\ n > 6 THEN " " ELSE "x"]

TextParts ==
    [lead : Blanks, n : 0..(SCANNED_TEXT_LIMIT + MaxExtraText), trail : Blanks]

TextOf(parts) == parts.lead \o TextBody(parts.n) \o parts.trail

NoParts == [lead |-> <<>>, n |-> 0, trail |-> <<>>]

ScanIdle ==
    /\ sc_parts = NoParts
    /\ sc_page = PlainPage
    /\ sc_text = <<>>
    /\ sc_called = FALSE
    /\ sc_result = FALSE

InitExtract ==
    /\ scenario = "extract"
    /\ RangeIdle
    /\ TableIdle
    /\ ex_clauses \in ExtractClauseLists
    /\ \E c \in Calls :
           ex_call = [entry |-> c.entry, extract_tables |-> c.extract_tables,
                      extract_images |-> c.extract_images,
                      page_range |-> IF ex_clauses = <<>> THEN None
                                     ELSE ExprText(ex_clauses)]
    /\ ex_doc \in Docs
    /\ ExtractStart
    /\ ScanIdle

NextExtract ==
    \/ OpenFails
    \/ OpenSucceeds
    \/ ResolvePages
    \/ ResolvePagesRaises
    \/ ProcessPage
    \/ ProcessPageRaises
    \/ Return

(***************************************************************************)
(* Calling _detect_scanned_page on its own.                                *)
(***************************************************************************)
CallDetectScannedPage ==
    /\ scenario = "_detect_scanned_page"
    /\ ~sc_called
    /\ sc_called' = TRUE
    /\ sc_result' = _detect_scanned_page(sc_page, sc_text)
    /\ UNCHANGED <<scenario, rangeVars, tableVars, extractVars, sc_parts, sc_page, sc_text>>

InitScan ==
    /\ scenario = "_detect_scanned_page"
    /\ RangeIdle
    /\ TableIdle
    /\ ExtractIdle
    /\ sc_parts \in TextParts
    /\ sc_text = TextOf(sc_parts)
    /\ \E k \in 0..MaxImages :
           sc_page = [PlainPage EXCEPT !.text = sc_text, !.images = [i \in 1..k |-> Image]]
    /\ sc_called = FALSE
    /\ sc_result = FALSE

NextScan == CallDetectScannedPage

SpecScan == InitScan /\ [][NextScan]_vars

(***************************************************************************)
(* Specifications.                                                         *)
(***************************************************************************)
InitRange ==
    /\ scenario = "parse_page_range"
    /\ total_pages \in 0..MaxPages
    /\ \/ /\ clauses = <<>>
          /\ page_range = None
       \/ /\ clauses \in ClauseLists
          /\ page_range = ExprText(clauses)
    /\ via_endpoint \in (IF Len(clauses) <= 1 THEN BOOLEAN ELSE {FALSE})
    /\ rp_called = FALSE
    /\ rp_arg = None
    /\ rp_result = NotCalled
    /\ TableIdle
    /\ ExtractIdle
    /\ ScanIdle

InitTable ==
    /\ RangeIdle
    /\ \/ /\ scenario = "_table_to_markdown"
          /\ tm_data0 \in Grids
          /\ pg_page = NoPage
       \/ /\ scenario = "_extract_page_tables"
          /\ tm_data0 = <<>>
          /\ pg_page \in TablePages
    /\ tm_data = tm_data0
    /\ tm_called = FALSE
    /\ tm_md = <<>>
    /\ pg_called = FALSE
    /\ pg_result = NoTables
    /\ ExtractIdle
    /\ ScanIdle

NextRange == CallParsePageRange

NextTable == CallTableToMarkdown \/ CallExtractPageTables

SpecRange == InitRange /\ [][NextRange]_vars

SpecTable == InitTable /\ [][NextTable]_vars

SpecExtract == InitExtract /\ [][NextExtract]_vars

\* Every function under any of its callers.
Init == InitRange \/ InitTable \/ InitExtract \/ InitScan

Next == NextRange \/ NextTable \/ NextExtract \/ NextScan

Spec == Init /\ [][Next]_vars

(***************************************************************************)
(* Claims about parse_page_range (checked under SpecRange).                *)
(***************************************************************************)
\* The list xs as a set.
Elems(xs) == {xs[i] : i \in 1..Len(xs)}

StrictlyIncreasing(xs) == \A i \in 1..(Len(xs) - 1) : xs[i] < xs[i + 1]

\* The list is exactly [0, 1, ..., n-1].
IsZeroToN(xs, n) == Len(xs) = n /\ \A i \in 1..Len(xs) : xs[i] = i - 1

\* A clause that is a non-negative integer or a pair of non-negative integers.
NonNegClause(c) ==
    \/ c.k \in {"n", "s"} /\ c.n >= 0
    \/ c.k = "r" /\ c.a >= 0 /\ c.b >= 0

\* What the clause contributes, as the range contract states it.
Contributes(c, i, n) ==
    \/ c.k \in {"n", "s"} /\ i = c.n
    \/ c.k = "r" /\ Max(0, c.a) <= i /\ i <= Min(n - 1, c.b)

ContractPages(cs, n) ==
    {i \in 0..(n - 1) : \E j \in 1..Len(cs) : Contributes(cs[j], i, n)}

\* The call was made with the text of the clause list (not with None).
CalledWithClauses == rp_called /\ clauses # <<>> /\ rp_arg # None

\* C1: for an expression whose clauses are each a non-negative integer or a pair of
\* non-negative integers, parse_page_range returns the strictly increasing list of
\* exactly the indices in [0, total_pages) that some clause contributes (a pair a-b
\* contributes max(0,a)..min(total_pages-1,b), nothing when that interval is empty).
C1_RangeContract ==
    (CalledWithClauses /\ \A j \in 1..Len(clauses) : NonNegClause(clauses[j]))
        => /\ ~rp_result.raised
           /\ StrictlyIncreasing(rp_result.value)
           /\ Elems(rp_result.value) = ContractPages(clauses, total_pages)

\* A clamped pair overlapping a single page: "1-10,1" on a 3-page document gives [1, 2].
C1_Witness ==
    /\ CalledWithClauses
    /\ total_pages = 3
    /\ clauses = <<[k |-> "r", a |-> 1, b |-> 10, pad |-> FALSE],
                   [k |-> "n", n |-> 1, pad |-> FALSE]>>
    /\ rp_result = [raised |-> FALSE, value |-> <<1, 2>>]

\* An expression with a clause that is neither an integer nor a pair of integers
\* makes parse_page_range raise, whatever the other clauses are.
MalformedRaisesInResolver ==
    (CalledWithClauses /\ \E j \in 1..Len(clauses) : clauses[j].k = "x")
        => rp_result = [raised |-> TRUE, exc |-> "ValueError"]

\* C6 as stated: None and the empty string both give [0, ..., total_pages-1].
C6_Original ==
    (rp_called /\ (rp_arg = None \/ rp_arg = <<>>))
        => ~rp_result.raised /\ IsZeroToN(rp_result.value, total_pages)

\* C6 amended: None gives [0, ..., total_pages-1]; the empty string handed to
\* parse_page_range raises; an empty form field of an endpoint reaches
\* parse_page_range as None and so gives all pages.
C6_NoneIsAllPages ==
    /\ (rp_called /\ rp_arg = None)
         => ~rp_result.raised /\ IsZeroToN(rp_result.value, total_pages)
    /\ (rp_called /\ rp_arg = <<>>) => rp_result.raised
    /\ (rp_called /\ via_endpoint /\ page_range = <<>>) => rp_arg = None

\* An empty form field on a 3-page document: all three pages.
C6_Witness ==
    /\ rp_called /\ via_endpoint /\ page_range = <<>> /\ total_pages = 3
    /\ rp_result = [raised |-> FALSE, value |-> <<0, 1, 2>>]

\* C7: for an expression of single-integer clauses, each n is in the result iff
\* 0 <= n < total_pages, and the call never raises.
C7_SingleDropped ==
    (CalledWithClauses /\ \A j \in 1..Len(clauses) : clauses[j].k = "n")
        => /\ ~rp_result.raised
           /\ \A j \in 1..Len(clauses) :
                  clauses[j].n \in Elems(rp_result.value)
                      <=> (0 <= clauses[j].n /\ clauses[j].n < total_pages)

\* C8 as stated: with total_pages = 0 every expression gives the empty list.
C8_Original ==
    (rp_called /\ total_pages = 0) => rp_result = [raised |-> FALSE, value |-> <<>>]

\* C8 amended: with total_pages = 0 parse_page_range never returns a non-empty list;
\* it returns [] for None and for every expression of non-negative integers and pairs
\* of them, and raises for an expression with a malformed clause.
C8_ZeroPages ==
    (rp_called /\ total_pages = 0)
        => /\ ~rp_result.raised => rp_result.value = <<>>
           /\ (rp_arg = None \/ \A j \in 1..Len(clauses) : NonNegClause(clauses[j]))
                  => ~rp_result.raised
           /\ (rp_arg # None /\ \E j \in 1..Len(clauses) : clauses[j].k = "x")
                  => rp_result.raised

\* "0-2,1" on a document without pages: the empty list.
C8_Witness ==
    /\ CalledWithClauses
    /\ total_pages = 0
    /\ clauses = <<[k |-> "r", a |-> 0, b |-> 2, pad |-> FALSE],
                   [k |-> "n", n |-> 1, pad |-> FALSE]>>
    /\ rp_result = [raised |-> FALSE, value |-> <<>>]

(***************************************************************************)
(* Claims about the table functions (checked under SpecTable).             *)
(***************************************************************************)
\* Table i of the page was reached by the loop of _extract_page_tables and its
\* extract() returned: neither find_tables() nor an earlier or this extract() raised.
Normalized(page, i) ==
    /\ ~page.find_raises
    /\ \A j \in 1..i : ~page.tables[j].raises

NormalizedTables(page) == {i \in 1..Len(page.tables) : Normalized(page, i)}

\* The records of the result that belong to table i of the page (table_index is 0-based).
RecordsOf(result, i) ==
    {k \in 1..Len(result.tables) : result.tables[k].table_index = i - 1}

EmptyOrEmptyFirstRow(grid) == grid = <<>> \/ grid[1] = <<>>

\* C9 as stated: an empty grid, or one whose first row is empty, gives a record with
\* rows = 0 and cols = 0 and no markdown string.
C9_Original ==
    pg_called =>
        \A i \in NormalizedTables(pg_page) :
            EmptyOrEmptyFirstRow(pg_page.tables[i].grid)
                => /\ \E k \in RecordsOf(pg_result, i) :
                          pg_result.tables[k].rows = 0 /\ pg_result.tables[k].cols = 0
                   /\ Len(pg_result.markdown) < Cardinality(NormalizedTables(pg_page))

\* C9 amended: an empty grid gives no table record and no markdown string; a
\* non-empty grid whose first row is empty gives one record with rows = len(grid) and
\* cols = 0, and a markdown string is emitted for it: every record of the page has
\* its markdown string, in the same position.
C9_EmptyGrids ==
    pg_called =>
        /\ \A i \in NormalizedTables(pg_page) :
               LET grid == pg_page.tables[i].grid
               IN  /\ grid = <<>> => RecordsOf(pg_result, i) = {}
                   /\ (grid # <<>> /\ grid[1] = <<>>)
                          => /\ Cardinality(RecordsOf(pg_result, i)) = 1
                             /\ \A k \in RecordsOf(pg_result, i) :
                                    /\ pg_result.tables[k].rows = Len(grid)
                                    /\ pg_result.tables[k].cols = 0
                                    /\ k <= Len(pg_result.markdown)
                                    /\ pg_result.markdown[k] # <<>>
        /\ Len(pg_result.markdown)
               = Cardinality({i \in NormalizedTables(pg_page) : pg_page.tables[i].grid # <<>>})

\* A page whose first table is empty and whose second has an empty first row.
C9_Witness ==
    /\ pg_called
    /\ pg_page.tables = <<[raises |-> FALSE, grid |-> <<>>, bbox |-> Bbox],
                          [raises |-> FALSE, grid |-> <<<<>>, <<CellA>>>>, bbox |-> Bbox]>>
    /\ Len(pg_result.tables) = 1
    /\ pg_result.tables[1].table_index = 1
    /\ pg_result.tables[1].rows = 2
    /\ pg_result.tables[1].cols = 0
    /\ Len(pg_result.markdown) = 1

\* The greatest row length of a non-empty grid.
GridWidth(grid) ==
    CHOOSE n \in {Len(grid[i]) : i \in 1..Len(grid)} :
        /\ \A i \in 1..Len(grid) : Len(grid[i]) <= n

\* The cells of rendered line i of a grid of width n: line 1 is the first row, line 2
\* the separator, line i > 2 is row i - 1; a row's missing cells are empty strings.
LineCells(grid, i, n) ==
    IF i = 2 THEN [j \in 1..n |-> Dashes]
    ELSE LET row == grid[IF i = 1 THEN 1 ELSE i - 1]
         IN  [j \in 1..n |-> IF j <= Len(row) THEN CleanCell(row[j]) ELSE <<>>]

\* A rendered line read back: split on the pipe, the text before the first pipe and
\* after the last dropped, each cell stripped of the blanks around it.
ParseLine(line) ==
    LET pieces == Split(line, "|")
    IN  [j \in 1..(Len(pieces) - 2) |-> Strip(pieces[j + 1])]

\* C10: for a non-empty grid the returned text has len(grid) + 1 lines: the first row
\* as header, the "---" separator, the remaining rows in order, shorter rows padded
\* on the right with empty cells; every line, read as a markdown table line, has as
\* many cells as the longest row of the grid; the grid handed in is unchanged.
C10_MarkdownShape ==
    (tm_called /\ tm_data0 # <<>>) =>
        LET lines == Split(tm_md, "\n")
            n == GridWidth(tm_data0)
        IN  /\ Len(lines) = Len(tm_data0) + 1
            /\ \A i \in 1..Len(lines) :
                   lines[i] = <<"|", " ">> \o Join(LineCells(tm_data0, i, n), CellSep)
                                  \o <<" ", "|">>
            /\ \A i \in 1..Len(lines) : Len(ParseLine(lines[i])) = n
            /\ tm_data = tm_data0

(***************************************************************************)
(* Claims about the entry points (checked under SpecExtract, C5 under Spec).*)
(***************************************************************************)
Exited == ex_pc \in {"returned", "raised"}

\* Every content field of a response is empty, per entry point.
ContentEmpty(entry, r) ==
    IF entry = "extract_full"
    THEN /\ r.pages = <<>>
         /\ r.full_text = <<>>
         /\ r.full_text_with_tables = <<>>
         /\ r.scanned_page_count = 0
    ELSE IF entry = "extract_text_only"
    THEN r.text = <<>> /\ r.scanned_page_count = 0
    ELSE r.tables = <<>> /\ r.tables_markdown = <<>>

\* C2: when opening the document fails, the call returns a response with
\* success = false, total_pages = 0, every content field empty and a non-empty error;
\* nothing is raised, no page is processed, no handle is closed.
C2_OpenFailure ==
    (scenario = "extract" /\ ~ex_doc.opens /\ ex_pc # "start")
        => /\ ex_pc = "returned"
           /\ ex_exc = None
           /\ ex_response.returned
           /\ ex_response.success = FALSE
           /\ ex_response.total_pages = 0
           /\ ContentEmpty(ex_call.entry, ex_response)
           /\ ex_response.error # None
           /\ ex_response.error # <<>>
           /\ ex_log = <<>>
           /\ ex_handle = NoHandle

\* extract_tables_only on bytes the engine rejects with an empty message.
C2_Witness ==
    /\ scenario = "extract"
    /\ ex_call.entry = "extract_tables_only"
    /\ ~ex_doc.opens
    /\ ex_doc.open_error = <<>>
    /\ ex_pc = "returned"
    /\ ex_response.success = FALSE
    /\ ex_response.error = FailedToOpen

\* C3: once the document is open, the handle is closed exactly once when the call
\* ends, however it ends (the loop completes, with or without a table-discovery
\* warning; parse_page_range raises; get_text or get_images raises on a page), it is
\* not closed before, and no page is read from a closed handle.
C3_ClosedOnce ==
    (scenario = "extract" /\ ex_doc.opens /\ ex_pc # "start")
        => /\ Exited => (ex_handle.closes = 1 /\ ~ex_handle.open)
           /\ ~Exited => (ex_handle.closes = 0 /\ ex_handle.open)
           /\ ex_handle.reads_after_close = 0

\* A call that logged a table-discovery warning on its first page and then ended by an
\* engine exception on its second page.
C3_Witness ==
    /\ scenario = "extract"
    /\ ex_pc = "raised"
    /\ Len(ex_exc) = 2
    /\ ex_exc[1] = "RuntimeError"
    /\ Len(ex_log) = 1
    /\ ex_warnings = 1
    /\ ex_handle.closes = 1

\* Table discovery raises on the page: in find_tables or in extract() of some table.
DiscoveryRaises(page) ==
    page.find_raises \/ \E i \in 1..Len(page.tables) : page.tables[i].raises

\* The call runs table discovery on its pages.
DiscoversTables ==
    \/ ex_call.entry = "extract_tables_only"
    \/ ex_call.entry = "extract_full" /\ ex_call.extract_tables

\* C4: a page on which table discovery raises (in find_tables or in extract() of any
\* of its tables) contributes no table record and no markdown string and logs exactly
\* one warning; the failure never ends the call: the later pages are processed and the
\* response has success = true.
C4_FailedPageHasNoTables ==
    (scenario = "extract" /\ DiscoversTables)
        => /\ \A k \in 1..Len(ex_log) :
                  DiscoveryRaises(ex_doc.pages[ex_log[k].page_number + 1])
                      => /\ ex_log[k].found.tables = <<>>
                         /\ ex_log[k].found.markdown = <<>>
                         /\ ex_log[k].found.warnings = 1
           /\ ex_pc = "returned" /\ ex_doc.opens
                  => /\ ex_response.success
                     /\ Len(ex_log) = Len(ex_page_indices)
           /\ ex_pc = "raised" => ex_exc[1] \in {"ValueError", "RuntimeError"}

\* Inside an entry point, after a successful open, a malformed clause makes the call
\* end by the exception: no response is returned and no page is processed.
MalformedPropagates ==
    (/\ scenario = "extract"
     /\ ex_doc.opens
     /\ ex_pc \notin {"start", "opened"}
     /\ \E j \in 1..Len(ex_clauses) : ex_clauses[j].k = "x")
        => /\ ex_pc = "raised"
           /\ ex_exc = <<"ValueError">>
           /\ ex_response = NoResponse
           /\ ex_page_indices = <<>>
           /\ ex_log = <<>>
           /\ ex_handle.closes = 1

\* C5: an expression with at least one clause that is neither an integer nor a pair of
\* integers makes parse_page_range raise (ValueError, the code's InvalidRangeError)
\* and return no index list, whatever the other clauses are; inside an entry point,
\* after a successful open, the exception reaches the caller and no response is
\* returned.
C5_MalformedRange == MalformedRaisesInResolver /\ MalformedPropagates

\* extract_* with the range "0,1-x" on a two-page document: ValueError.
C5_Witness ==
    /\ scenario = "extract"
    /\ ex_clauses = <<[k |-> "n", n |-> 0, pad |-> FALSE],
                      [k |-> "x", raw |-> <<"1", "-", "x">>]>>
    /\ Len(ex_doc.pages) = 2
    /\ ex_pc = "raised"
    /\ ex_exc = <<"ValueError">>
    /\ ex_response = NoResponse

(***************************************************************************)
(* The round trip through _table_to_markdown (checked under SpecTable).    *)
(***************************************************************************)
\* All rows of the grid have the length of the first.
Rectangular(grid) == \A i \in 1..Len(grid) : Len(grid[i]) = Len(grid[1])

NoNewlineInCells(grid) ==
    \A i \in 1..Len(grid) : \A j \in 1..Len(grid[i]) : ~Contains(grid[i][j], "\n")

\* The value a cell stands for: None as the empty string, a string stripped.
Stringified(cell) == IF cell = None THEN <<>> ELSE Strip(cell)

\* The rendered line of row i of the grid: the separator is line 2.
LineOfRow(i) == IF i = 1 THEN 1 ELSE i + 1

\* C11: for a non-empty grid with rows of one length and no newline in a cell, the
\* rendered text read back line by line (separator skipped), split on the pipe, gives
\* the stringified cells of the grid, row by row and cell by cell.
C11_RoundTrip ==
    (tm_called /\ tm_data0 # <<>> /\ Rectangular(tm_data0) /\ NoNewlineInCells(tm_data0))
        => LET lines == Split(tm_md, "\n")
           IN  /\ Len(lines) = Len(tm_data0) + 1
               /\ \A i \in 1..Len(tm_data0) :
                      ParseLine(lines[LineOfRow(i)])
                          = [j \in 1..Len(tm_data0[i]) |-> Stringified(tm_data0[i][j])]

(***************************************************************************)
(* Claims about _detect_scanned_page (checked under SpecScan).             *)
(***************************************************************************)
\* C12: the classifier returns true iff the page has at least one image and the text
\* without its leading and trailing blanks has fewer than 20 characters: never for a
\* page without images; with images, true at 19 characters and false at 20.
C12_ScannedIff ==
    sc_called
        => /\ sc_result <=> (Len(sc_page.images) > 0 /\ sc_parts.n < 20)
           /\ Len(sc_page.images) = 0 => ~sc_result
           /\ (Len(sc_page.images) > 0 /\ sc_parts.n = 19) => sc_result
           /\ (Len(sc_page.images) > 0 /\ sc_parts.n = 20) => ~sc_result

\* One image and 19 characters between blanks: more than 20 characters as given,
\* classified scanned.
C12_Witness ==
    /\ sc_called
    /\ Len(sc_page.images) = 1
    /\ sc_parts = [lead |-> <<"\n", "\t", " ">>, n |-> 19, trail |-> <<" ">>]
    /\ Len(sc_text) = 23
    /\ sc_result = TRUE

(***************************************************************************)
(* Claims about the page loop of extract_full and extract_text_only        *)
(* (checked under SpecExtract).                                            *)
(***************************************************************************)
\* What the classifier says of the page of the document at a zero-based index.
MarkedScanned(idx) ==
    LET page == ex_doc.pages[idx + 1]
    IN  _detect_scanned_page(page, _extract_page_text(page))

SucceededWithPages ==
    /\ scenario = "extract"
    /\ ex_pc = "returned"
    /\ ex_doc.opens
    /\ ex_call.entry \in {"extract_full", "extract_text_only"}

\* C13: in a successful extract_full or extract_text_only call every resolved index is
\* processed exactly once, in ascending order; scanned_page_count is the number of
\* processed pages the classifier marked scanned; in extract_full it is also the
\* number of entries of pages with is_scanned true, and pages has one entry per
\* resolved index, in order, with page_number equal to the index.
C13_PageLoop ==
    SucceededWithPages
        => /\ [k \in 1..Len(ex_log) |-> ex_log[k].page_number] = ex_page_indices
           /\ StrictlyIncreasing(ex_page_indices)
           /\ ex_response.success
           /\ ex_response.scanned_page_count
                  = Cardinality({k \in 1..Len(ex_log) : MarkedScanned(ex_log[k].page_number)})
           /\ ex_call.entry = "extract_full"
                  => /\ ex_response.scanned_page_count
                            = Cardinality({k \in 1..Len(ex_response.pages) :
                                               ex_response.pages[k].is_scanned})
                     /\ Len(ex_response.pages) = Len(ex_page_indices)
                     /\ \A k \in 1..Len(ex_page_indices) :
                            ex_response.pages[k].page_number = ex_page_indices[k]

\* extract_full of "1,0" on two pages, the second of them scanned: both pages are
\* processed, page 0 first, and one is counted.
C13_Witness ==
    /\ SucceededWithPages
    /\ ex_call.entry = "extract_full"
    /\ Len(ex_clauses) = 2
    /\ ex_page_indices = <<0, 1>>
    /\ Len(ex_log) = 2
    /\ ~MarkedScanned(0)
    /\ MarkedScanned(1)
    /\ ex_response.scanned_page_count = 1

====
